---- MODULE Spec2Model ----
(***************************************************************************)
(* Model of main_unetr.py, the entry point of the voxel-level brain age    *)
(* pretraining run: module-level environment setup, main() and the         *)
(* collaborators main() calls (load_last_model, load_data, train, test).   *)
(* The collaborators live in sibling modules (train.py, load_data.py,      *)
(* testfunction.py); their behaviour is taken from the specification.      *)
(* The disk (output directory with its checkpoint) survives a process      *)
(* restart, everything else is rebuilt by each process.                    *)
(***************************************************************************)
EXTENDS Integers, Sequences, FiniteSets, TLC

\* ---------------------------------------------------------------- bounds
MaxEpochs == 3        \* UNETR_MAX_EPOCHS is drawn from 0..MaxEpochs
MaxStoredEpoch == 4   \* epoch index of a checkpoint left by an earlier run
MaxLoss == 2          \* validation losses are drawn from 1..MaxLoss
MaxRestarts == 2      \* process restarts after the first process
MaxResumes == 2       \* resume calls in a row (specification SpecIdem)

Losses == 1..MaxLoss
CsvPaths == {"full_data.csv", "test_set.csv"}

\* ------------------------------------------------------- values and state
\* float("inf"): larger than every validation loss
Inf == MaxLoss + 1
DefaultBestValLoss == Inf
DefaultLastValLoss == Inf

\* state_dict of a model / optimizer / scheduler: v counts the epochs of
\* updates it has absorbed, 0 is the freshly constructed object
ModelState(v) == [kind |-> "model", v |-> v]
OptimizerState(v) == [kind |-> "optimizer", v |-> v]
SchedulerState(v) == [kind |-> "scheduler", v |-> v]
Unbound == [kind |-> "unbound", v |-> 0]

\* the checkpoint record {epoch, model, optimizer, scheduler, last, best}
Checkpoint(e, m, o, s, l, b) ==
    [present |-> TRUE, epoch |-> e, model |-> m, optimizer |-> o,
     scheduler |-> s, last_val_loss |-> l, best_val_loss |-> b]
NoCkpt ==
    [present |-> FALSE, epoch |-> 0, model |-> Unbound, optimizer |-> Unbound,
     scheduler |-> Unbound, last_val_loss |-> Inf, best_val_loss |-> Inf]

\* checkpoints an earlier run of this program can have left behind
StoredCkpts ==
    { Checkpoint(e, ModelState(e), OptimizerState(e), SchedulerState(e), l, b) :
        e \in 1..MaxStoredEpoch, l \in Losses, b \in Losses }

NoLoaders == [test_set_path |-> "", full_data_path |-> ""]
NoArgs ==
    [model |-> Unbound, optimizer |-> Unbound, scheduler |-> Unbound,
     max_epochs |-> 0, directory_name |-> FALSE, start_epoch |-> 0]

VARIABLES
    config,       \* config.py: FULL_DATA_CSV, TEST_CSV, UNETR_MAX_EPOCHS
    disk,         \* UNETR_OUTPUT_DIR: exists, last checkpoint, best loss file
    pc,           \* position of the process
    locals,       \* local variables of main()
    tr,           \* local state of train()
    started,      \* steps this process has begun, in order
    finished,     \* steps this process has completed, in order
    failedAt,     \* step whose error ended this process, "" if none
    startCkpt,    \* the checkpoint load_last_model found in this process
    entered,      \* arguments train() received in this process
    loadDataCall, \* arguments load_data() received in this process
    testCalls,    \* arguments of every test() call of this process
    ranThisRun,   \* epoch indices executed by this process
    epochsRun,    \* epoch indices executed by all processes so far
    disk0,        \* the disk before the first process
    resumes,      \* load_last_model calls of this process
    restarts      \* processes started after the first

vars == <<config, disk, pc, locals, tr, started, finished, failedAt,
          startCkpt, entered, loadDataCall, testCalls, ranThisRun,
          epochsRun, disk0, resumes, restarts>>

Steps == <<"setup", "makedirs", "build_model", "build_optim", "resume",
           "load_data", "train", "test">>

\* main() before its first statement: nothing is bound yet (-1 and 0 stand
\* for an unbound epoch and an unbound loss)
FreshLocals ==
    [directory_exists |-> FALSE, model |-> Unbound, optimizer |-> Unbound,
     scheduler |-> Unbound, max_epochs |-> -1, start_epoch |-> -1,
     last_val_loss |-> 0, best_val_loss |-> 0, loaders |-> NoLoaders]

IdleTrain ==
    [active |-> FALSE, epoch |-> 0, max_epochs |-> 0, model |-> Unbound,
     optimizer |-> Unbound, scheduler |-> Unbound,
     best_val_loss |-> Inf, last_val_loss |-> Inf]

InitDisks ==
    { [dir |-> FALSE, last |-> NoCkpt, best |-> Inf] }
    \cup { [dir |-> TRUE, last |-> NoCkpt, best |-> Inf] }
    \cup { [dir |-> TRUE, last |-> c, best |-> c.best_val_loss] :
             c \in { k \in StoredCkpts : k.best_val_loss <= k.last_val_loss } }

Init ==
    /\ config \in [FULL_DATA_CSV : CsvPaths, TEST_CSV : CsvPaths,
                   UNETR_MAX_EPOCHS : 0..MaxEpochs]
    /\ disk \in InitDisks
    /\ disk0 = disk
    /\ pc = "setup"
    /\ locals = FreshLocals
    /\ tr = IdleTrain
    /\ started = <<>>
    /\ finished = <<>>
    /\ failedAt = ""
    /\ startCkpt = NoCkpt
    /\ entered = NoArgs
    /\ loadDataCall = NoLoaders
    /\ testCalls = <<>>
    /\ ranThisRun = <<>>
    /\ epochsRun = <<>>
    /\ resumes = 0
    /\ restarts = 0

\* ------------------------------------------------------------ control flow
\* the statement order of the module body and of main()
NextStepSwapped(s) ==
    CASE s = "setup" -> "makedirs"
      [] s = "makedirs" -> "build_model"
      [] s = "build_model" -> "build_optim"
      [] s = "build_optim" -> "load_data"
      [] s = "load_data" -> "resume"
      [] s = "resume" -> "train"
      [] s = "train" -> "test"
      [] OTHER -> "exit"

NextStepTestFirst(s) ==
    CASE s = "setup" -> "makedirs"
      [] s = "makedirs" -> "build_model"
      [] s = "build_model" -> "build_optim"
      [] s = "build_optim" -> "resume"
      [] s = "resume" -> "load_data"
      [] s = "load_data" -> "test"
      [] s = "test" -> "train"
      [] OTHER -> "exit"

NextStep(s) ==
    CASE s = "setup" -> "makedirs"
      [] s = "makedirs" -> "build_model"
      [] s = "build_model" -> "build_optim"
      [] s = "build_optim" -> "resume"
      [] s = "resume" -> "load_data"
      [] s = "load_data" -> "train"
      [] s = "train" -> "test"
      [] OTHER -> "exit"

\* an exception raised in a step: nothing in main() catches it
OnFailureSwallowed(s) == NextStep(s)

OnFailure(s) == "crashed"

\* a step that runs to completion in one go
Advance(s) ==
    /\ pc = s
    /\ started' = Append(started, s)
    /\ finished' = Append(finished, s)
    /\ pc' = NextStep(s)


\* ------------------------------------------------------------- main(): steps
\* print_config, environment variables, wandb.init, device selection
Setup ==
    /\ Advance("setup")
    /\ UNCHANGED <<config, disk, locals, tr, failedAt, startCkpt, entered,
                   loadDataCall, testCalls, ranThisRun, epochsRun, disk0,
                   resumes, restarts>>

\* os.makedirs(directory_name, exist_ok=True)
MakeDirs ==
    /\ Advance("makedirs")
    /\ disk' = [disk EXCEPT !.dir = TRUE]
    /\ locals' = [locals EXCEPT !.directory_exists = TRUE]
    /\ UNCHANGED <<config, tr, failedAt, startCkpt, entered, loadDataCall,
                   testCalls, ranThisRun, epochsRun, disk0, resumes, restarts>>

\* model = DataParallel(UNETR(...)).to(device)
BuildModel ==
    /\ Advance("build_model")
    /\ locals' = [locals EXCEPT !.model = ModelState(0)]
    /\ UNCHANGED <<config, disk, tr, failedAt, startCkpt, entered,
                   loadDataCall, testCalls, ranThisRun, epochsRun, disk0,
                   resumes, restarts>>

\* optimizer, scheduler and max_epochs from the configuration
BuildOptim ==
    /\ Advance("build_optim")
    /\ locals' = [locals EXCEPT !.optimizer = OptimizerState(0),
                                !.scheduler = SchedulerState(0),
                                !.max_epochs = config.UNETR_MAX_EPOCHS]
    /\ UNCHANGED <<config, disk, tr, failedAt, startCkpt, entered,
                   loadDataCall, testCalls, ranThisRun, epochsRun, disk0,
                   resumes, restarts>>

\* load_last_model(model, optimizer, scheduler, directory_name): the tuple it
\* returns. With a checkpoint in the directory the three objects carry the
\* stored state and the bookkeeping is the stored one; without, the objects
\* come back as passed, with epoch 0 and the default losses.
load_last_model(model, optimizer, scheduler, d) ==
    IF d.last.present
    THEN <<d.last.model, d.last.optimizer, d.last.scheduler,
           d.last.epoch, d.last.last_val_loss, d.last.best_val_loss>>
    ELSE <<model, optimizer, scheduler, 0,
           DefaultLastValLoss, DefaultBestValLoss>>

\* the tuple assignment of the resume statement
ResumeBindingStaleOptimizer(l, r) ==
    [l EXCEPT !.model = r[1], !.scheduler = r[3],
              !.start_epoch = r[4], !.last_val_loss = r[5],
              !.best_val_loss = r[6]]

ResumeBindingMisordered(l, r) ==
    [l EXCEPT !.model = r[2], !.optimizer = r[1], !.scheduler = r[3],
              !.start_epoch = r[4], !.last_val_loss = r[5],
              !.best_val_loss = r[6]]

ResumeBinding(l, r) ==
    [l EXCEPT !.model = r[1], !.optimizer = r[2], !.scheduler = r[3],
              !.start_epoch = r[4], !.last_val_loss = r[5],
              !.best_val_loss = r[6]]

Resume ==
    /\ Advance("resume")
    /\ locals' = ResumeBinding(locals,
                    load_last_model(locals.model, locals.optimizer,
                                    locals.scheduler, disk))
    /\ startCkpt' = disk.last
    /\ resumes' = resumes + 1
    /\ UNCHANGED <<config, disk, tr, failedAt, entered, loadDataCall,
                   testCalls, ranThisRun, epochsRun, disk0, restarts>>


\* load_data(test_set_path=TEST_CSV, full_data_path=FULL_DATA_CSV): arguments
LoadDataArgsSwapped(c) ==
    [test_set_path |-> c.FULL_DATA_CSV, full_data_path |-> c.TEST_CSV]

LoadDataArgs(c) ==
    [test_set_path |-> c.TEST_CSV, full_data_path |-> c.FULL_DATA_CSV]

\* load_data: the loaders it returns are built from the files it was given
load_data(args) == args

LoadData ==
    /\ Advance("load_data")
    /\ loadDataCall' = LoadDataArgs(config)
    /\ locals' = [locals EXCEPT !.loaders = load_data(LoadDataArgs(config))]
    /\ UNCHANGED <<config, disk, tr, failedAt, startCkpt, entered, testCalls,
                   ranThisRun, epochsRun, disk0, resumes, restarts>>

\* train(train_loader, val_loader, model, optimizer, scheduler, max_epochs,
\*       directory_name, start_epoch=start_epoch): arguments
TrainCallArgsFromZero(l) ==
    [model |-> l.model, optimizer |-> l.optimizer, scheduler |-> l.scheduler,
     max_epochs |-> l.max_epochs, directory_name |-> l.directory_exists,
     start_epoch |-> 0]

TrainCallArgsOffByOne(l) ==
    [model |-> l.model, optimizer |-> l.optimizer, scheduler |-> l.scheduler,
     max_epochs |-> l.max_epochs, directory_name |-> l.directory_exists,
     start_epoch |-> l.start_epoch + 1]

TrainCallArgsOneMore(l) ==
    [model |-> l.model, optimizer |-> l.optimizer, scheduler |-> l.scheduler,
     max_epochs |-> l.max_epochs + 1, directory_name |-> l.directory_exists,
     start_epoch |-> l.start_epoch]

TrainCallArgs(l) ==
    [model |-> l.model, optimizer |-> l.optimizer, scheduler |-> l.scheduler,
     max_epochs |-> l.max_epochs, directory_name |-> l.directory_exists,
     start_epoch |-> l.start_epoch]

\* train(): the loop state on entry. The loss bookkeeping starts from the
\* defaults: train() has no parameter that carries a loss
TrainEntry(a) ==
    [active |-> TRUE, epoch |-> a.start_epoch, max_epochs |-> a.max_epochs,
     model |-> a.model, optimizer |-> a.optimizer, scheduler |-> a.scheduler,
     best_val_loss |-> DefaultBestValLoss,
     last_val_loss |-> DefaultLastValLoss]

TrainCall ==
    /\ pc = "train"
    /\ ~tr.active
    /\ started' = Append(started, "train")
    /\ entered' = TrainCallArgs(locals)
    /\ tr' = TrainEntry(TrainCallArgs(locals))
    /\ UNCHANGED <<config, disk, pc, locals, finished, failedAt, startCkpt,
                   loadDataCall, testCalls, ranThisRun, epochsRun, disk0,
                   resumes, restarts>>

Min(a, b) == IF a < b THEN a ELSE b

\* one iteration of for epoch in range(start_epoch, max_epochs): update the
\* model, optimizer and scheduler, validate, write the checkpoint
TrainEpoch ==
    /\ pc = "train"
    /\ tr.active
    /\ tr.epoch < tr.max_epochs
    /\ \E loss \in Losses :
         LET m == [tr.model EXCEPT !.v = @ + 1]
             o == [tr.optimizer EXCEPT !.v = @ + 1]
             s == [tr.scheduler EXCEPT !.v = @ + 1]
             best == Min(tr.best_val_loss, loss)
         IN /\ tr' = [tr EXCEPT !.epoch = @ + 1, !.model = m,
                                !.optimizer = o, !.scheduler = s,
                                !.last_val_loss = loss,
                                !.best_val_loss = best]
            /\ locals' = [locals EXCEPT !.model = m, !.optimizer = o,
                                        !.scheduler = s]
            /\ disk' = [disk EXCEPT
                          !.last = Checkpoint(tr.epoch + 1, m, o, s, loss, best),
                          !.best = IF loss < tr.best_val_loss THEN loss ELSE @]
    /\ ranThisRun' = Append(ranThisRun, tr.epoch)
    /\ epochsRun' = Append(epochsRun, tr.epoch)
    /\ UNCHANGED <<config, pc, started, finished, failedAt, startCkpt,
                   entered, loadDataCall, testCalls, disk0, resumes, restarts>>

\* the loop is exhausted and train() returns
TrainReturn ==
    /\ pc = "train"
    /\ tr.active
    /\ ~(tr.epoch < tr.max_epochs)
    /\ tr' = [tr EXCEPT !.active = FALSE]
    /\ finished' = Append(finished, "train")
    /\ pc' = NextStep("train")
    /\ UNCHANGED <<config, disk, locals, started, failedAt, startCkpt,
                   entered, loadDataCall, testCalls, ranThisRun, epochsRun,
                   disk0, resumes, restarts>>

\* test(test_loader, model, directory_name, TEST_CSV): arguments
TestCallArgs(l, c) ==
    [test_loader |-> l.loaders, model |-> l.model,
     directory_name |-> l.directory_exists, test_csv |-> c.TEST_CSV]

Test ==
    /\ Advance("test")
    /\ testCalls' = Append(testCalls, TestCallArgs(locals, config))
    /\ UNCHANGED <<config, disk, locals, tr, failedAt, startCkpt, entered,
                   loadDataCall, ranThisRun, epochsRun, disk0, resumes,
                   restarts>>

\* ------------------------------------------------------- failure and restart
InTrainLoop == pc = "train" /\ tr.active

\* the current step raises
Fail ==
    /\ pc \in {Steps[i] : i \in 1..Len(Steps)}
    /\ pc = "train" => tr.active
    /\ failedAt = ""
    /\ failedAt' = pc
    /\ started' = IF InTrainLoop THEN started ELSE Append(started, pc)
    /\ pc' = OnFailure(pc)
    /\ tr' = [tr EXCEPT !.active = FALSE]
    /\ UNCHANGED <<config, disk, locals, finished, startCkpt, entered,
                   loadDataCall, testCalls, ranThisRun, epochsRun, disk0,
                   resumes, restarts>>

\* the program is started again on the same output directory
Restart ==
    /\ pc \in {"crashed", "exit"}
    /\ restarts < MaxRestarts
    /\ restarts' = restarts + 1
    /\ pc' = "setup"
    /\ locals' = FreshLocals
    /\ tr' = IdleTrain
    /\ started' = <<>>
    /\ finished' = <<>>
    /\ failedAt' = ""
    /\ startCkpt' = NoCkpt
    /\ entered' = NoArgs
    /\ loadDataCall' = NoLoaders
    /\ testCalls' = <<>>
    /\ ranThisRun' = <<>>
    /\ resumes' = 0
    /\ UNCHANGED <<config, disk, epochsRun, disk0>>

Next ==
    \/ Setup
    \/ MakeDirs
    \/ BuildModel
    \/ BuildOptim
    \/ Resume
    \/ LoadData
    \/ TrainCall
    \/ TrainEpoch
    \/ TrainReturn
    \/ Test
    \/ Fail
    \/ Restart

Spec == Init /\ [][Next]_vars

\* ------------------------------------------ resume applied twice in a row
\* the resume statement executed again, right after itself
ResumeAgain ==
    /\ pc = NextStep("resume")
    /\ finished # <<>>
    /\ finished[Len(finished)] = "resume"
    /\ resumes < MaxResumes
    /\ locals' = ResumeBinding(locals,
                    load_last_model(locals.model, locals.optimizer,
                                    locals.scheduler, disk))
    /\ resumes' = resumes + 1
    /\ UNCHANGED <<config, disk, pc, tr, started, finished, failedAt,
                   startCkpt, entered, loadDataCall, testCalls, ranThisRun,
                   epochsRun, disk0, restarts>>

NextIdem ==
    \/ Next
    \/ ResumeAgain

SpecIdem == Init /\ [][NextIdem]_vars


\* ------------------------------------------------------------------ claims
Has(seq, x) == \E i \in 1..Len(seq) : seq[i] = x

IsPrefix(a, b) == Len(a) <= Len(b) /\ \A i \in 1..Len(a) : a[i] = b[i]

\* the epoch the first process has to begin with
BaseEpoch == IF disk0.last.present THEN disk0.last.epoch ELSE 0

\* C1: with a checkpoint at startup, the start epoch main() binds and hands
\* to train() is the stored epoch index; over all processes the executed
\* epochs are consecutive from the first process's start: none is run
\* twice, none is skipped.
C1_ResumeFromStoredEpoch ==
    /\ (Has(finished, "resume") /\ startCkpt.present)
          => locals.start_epoch = startCkpt.epoch
    /\ (Has(started, "train") /\ startCkpt.present)
          => entered.start_epoch = startCkpt.epoch
    /\ \A i \in 1..Len(epochsRun) : epochsRun[i] = BaseEpoch + i - 1

C1_Witness ==
    /\ restarts >= 1
    /\ startCkpt.present
    /\ Len(ranThisRun) >= 1
    /\ Len(epochsRun) > Len(ranThisRun)

\* C2: with a checkpoint at startup, train() begins its best/last validation
\* loss bookkeeping from the losses stored in the checkpoint.
C2_LossesContinue ==
    (startCkpt.present /\ tr.active /\ ranThisRun = <<>>)
        => /\ tr.best_val_loss = startCkpt.best_val_loss
           /\ tr.last_val_loss = startCkpt.last_val_loss

\* C3: without a checkpoint at startup, resume binds start epoch 0 and the
\* default loss sentinels, and train() receives start epoch 0 and the
\* freshly constructed model, optimizer and scheduler.
C3_NoCheckpointDefaults ==
    (Has(finished, "resume") /\ ~startCkpt.present)
        => /\ locals.start_epoch = 0
           /\ locals.last_val_loss = DefaultLastValLoss
           /\ locals.best_val_loss = DefaultBestValLoss
           /\ Has(started, "train")
                => /\ entered.start_epoch = 0
                   /\ entered.model = ModelState(0)
                   /\ entered.optimizer = OptimizerState(0)
                   /\ entered.scheduler = SchedulerState(0)

C3_Witness ==
    /\ Has(started, "train")
    /\ ~startCkpt.present
    /\ disk0.dir
    /\ tr.active

\* C4: every epoch index a process executes lies between the resumed start
\* epoch and the configured maximum minus one; with the start epoch at or
\* past the maximum no epoch is executed.
C4_NeverPastMax ==
    /\ \A i \in 1..Len(ranThisRun) :
          /\ locals.start_epoch <= ranThisRun[i]
          /\ ranThisRun[i] < config.UNETR_MAX_EPOCHS
    /\ (Has(started, "train")
          /\ locals.start_epoch >= config.UNETR_MAX_EPOCHS)
          => ranThisRun = <<>>

C4_Witness ==
    /\ Has(finished, "train")
    /\ locals.start_epoch > config.UNETR_MAX_EPOCHS
    /\ config.UNETR_MAX_EPOCHS > 0
    /\ ranThisRun = <<>>

\* C5: a resume performed right after a resume changes neither main()'s
\* model, optimizer, scheduler, start epoch and losses, nor the disk; no
\* resume changes the disk.
C5_ResumeIdempotent ==
    [][/\ (resumes' = resumes + 1) => disk' = disk
       /\ (resumes' = resumes + 1 /\ resumes >= 1) => locals' = locals]_vars

C5_Witness ==
    /\ resumes >= 2
    /\ pc = "load_data"

\* C6: the model, optimizer, scheduler and start epoch train() receives are
\* the four of the checkpoint found at startup, or, without one, the four
\* fresh ones.
C6_AtomicRestore ==
    Has(started, "train")
        => LET four == <<entered.model, entered.optimizer,
                         entered.scheduler, entered.start_epoch>>
           IN IF startCkpt.present
              THEN four = <<startCkpt.model, startCkpt.optimizer,
                            startCkpt.scheduler, startCkpt.epoch>>
              ELSE four = <<ModelState(0), OptimizerState(0),
                            SchedulerState(0), 0>>

C6_Witness ==
    /\ Has(started, "train")
    /\ startCkpt.present
    /\ restarts >= 1
    /\ startCkpt # disk0.last

\* C7: the steps of a process begin in the order setup, model, optimizer and
\* scheduler, resume, data loaders, training, test; a step begins only when
\* every step begun before it has finished; a process that exits has run
\* each of them exactly once.
ClaimedOrder == <<"setup", "build_model", "build_optim", "resume",
                  "load_data", "train", "test">>

NotMakeDirs(x) == x # "makedirs"

C7_LinearControlFlow ==
    /\ IsPrefix(SelectSeq(started, NotMakeDirs), ClaimedOrder)
    /\ IsPrefix(finished, started)
    /\ Len(started) <= Len(finished) + 1
    /\ Len(started) > Len(finished) => (InTrainLoop \/ failedAt # "")
    /\ pc = "exit" => SelectSeq(finished, NotMakeDirs) = ClaimedOrder

C7_Witness ==
    /\ pc = "exit"
    /\ failedAt = ""
    /\ Len(ranThisRun) >= 2

\* C8: a step that raises ends the process with that error: the failed step
\* is the last one begun and never finishes, and no test runs after a
\* failed training loop.
C8_FailureTerminates ==
    /\ (pc = "crashed") <=> (failedAt # "")
    /\ failedAt # ""
          => /\ started # <<>>
             /\ started[Len(started)] = failedAt
             /\ ~Has(finished, failedAt)
             /\ failedAt = "train" => testCalls = <<>>

C8_Witness ==
    /\ failedAt = "train"
    /\ Len(ranThisRun) >= 1

\* C9: load_data() receives the configured test-set and full-data paths, and
\* test() receives the test-set path load_data() received.
C9_ConfiguredPaths ==
    /\ Has(started, "load_data") /\ failedAt # "load_data"
          => /\ loadDataCall.test_set_path = config.TEST_CSV
             /\ loadDataCall.full_data_path = config.FULL_DATA_CSV
    /\ \A i \in 1..Len(testCalls) :
          /\ testCalls[i].test_csv = config.TEST_CSV
          /\ testCalls[i].test_csv = loadDataCall.test_set_path
          /\ testCalls[i].test_loader = load_data(loadDataCall)

C9_Witness ==
    /\ testCalls # <<>>
    /\ config.TEST_CSV # config.FULL_DATA_CSV

\* C10: test() is called at most once per process and exactly once in a
\* process that exits, only after train() has returned, on the model that
\* resume returned with the updates of every epoch this process executed.
C10_TestOnceAfterTraining ==
    /\ Len(testCalls) <= 1
    /\ pc = "exit" => Len(testCalls) = 1
    /\ testCalls # <<>>
          => /\ Has(finished, "train")
             /\ testCalls[1].model = tr.model
             /\ testCalls[1].model =
                  [entered.model EXCEPT !.v = @ + Len(ranThisRun)]
             /\ entered.model =
                  (IF startCkpt.present THEN startCkpt.model ELSE ModelState(0))

C10_Witness ==
    /\ pc = "exit"
    /\ testCalls # <<>>
    /\ ranThisRun = <<>>
    /\ startCkpt.present

====
